---- MODULE Spec2Model ----
(***************************************************************************)
(* HELP-me-BUNK: the attendance store (database.py), the bunk calculator   *)
(* (attendance_calculator.py), the projection and the statistics of        *)
(* /api/predictions and /api/latest-data, the working-day counter of the   *)
(* timetable projection and the per-user background scraper of app.py.     *)
(*                                                                         *)
(* Percentages are kept in hundredths of a percent (7500 = 75.00%), which  *)
(* is what round(x, 2) leaves of a float; comparisons of unrounded floats  *)
(* are done on cross-multiplied integers.                                  *)
(***************************************************************************)
EXTENDS Integers, Sequences, FiniteSets, TLC

VARIABLES
    calculator,      \* the AttendanceCalculator instance of /api/calculate
    calcArgs,        \* arguments of the last calculate_bunk_allowance call
    calcResult,      \* what that call returned (or the exception it raised)
    calcSeen,        \* an earlier call of calculate_bunk_allowance and its result
    users,           \* data['users']: user_id -> configuration
    attendance,      \* data['attendance']: user_id -> (subject name -> record)
    dbCall,          \* the last direct call of a database.py function
    dayCount,        \* the last countWorkingDays call and its result
    request,         \* request.json of the last recorded /api/update-attendance
    timetable,       \* data['timetable']: user_id -> list of entries
    scrape_history,  \* data['scrape_history']: user_id -> list of scrapes
    now,             \* datetime.now(): [day, midnight]
    response,        \* the last HTTP response of a route
    scraper_status,  \* app.scraper_status: user_id -> status dict
    threads          \* the run_scraper_background threads started so far

vars == <<calculator, calcArgs, calcResult, calcSeen, users, attendance, dbCall,
          dayCount, request, timetable, scrape_history, now, response,
          scraper_status, threads>>

calcVars == <<calculator, calcArgs, calcResult, calcSeen>>
libVars == <<dbCall, dayCount, request>>
storeVars == <<users, attendance>>
tableVars == <<timetable, scrape_history>>
scrapeVars == <<scraper_status, threads>>

----------------------------------------------------------------------------
(* Bounds *)

MaxTotal == 8        \* calculator: total classes conducted
MaxFuture == 3       \* calculator: future classes
MaxProjTotal == 20   \* projection: counts of the stored subject
MaxSemDay == 24      \* projection: latest semester_end, as a day number
MaxCount == 1        \* store: counts a request or a scrape may carry
MaxScraped == 1      \* store: subjects in one scraped list
MaxEntries == 2      \* timetable: entries of a user's timetable
MaxSpareTotal == 8   \* timetable view: counts of the stored subject
MaxHistory == 1      \* store: scrapes kept in a user's history
MaxThreads == 2      \* scraper: background threads started
MaxStatCount == 4    \* statistics: counts of the two stored subjects
MaxDay == 15         \* working days: latest start or end date, as a day number
MaxDbCount == 3      \* database: counts a direct call may carry
MaxSeen == 1         \* calculator: arguments of the call kept for comparison

Today == 3           \* the day number of datetime.now() in the projection

Users == {"u1", "u2"}
Subjects == {"s1", "s2"}

None == [none |-> TRUE]

----------------------------------------------------------------------------
(* Arithmetic of the Python expressions *)

Max(a, b) == IF a >= b THEN a ELSE b

\* int(num / den) for den > 0: truncation toward zero
IntTrunc(num, den) ==
    IF num >= 0 THEN num \div den ELSE -((-num) \div den)

\* round(num / den) to the nearest integer, ties to even (Python's round)
RoundHalfEven(num, den) ==
    LET q == num \div den
        r == num % den
    IN  IF 2 * r < den THEN q
        ELSE IF 2 * r > den THEN q + 1
        ELSE IF q % 2 = 0 THEN q ELSE q + 1

\* round((present / total) * 100, 2) if total > 0 else 0, in hundredths
Percentage(present, total) ==
    IF total > 0 THEN RoundHalfEven(10000 * present, total) ELSE 0

\* math.ceil(0.75 * n)
Ceil75(n) == (3 * n + 3) \div 4

----------------------------------------------------------------------------
(* attendance_calculator.py *)

AttendanceCalculator(target_percentage, safety_buffer) ==
    [target_percentage |-> target_percentage,
     safe_target |-> target_percentage + safety_buffer,
     attendance_data |-> <<>>]

\* the variant a reader of the docstring expects: bunks classes are missed,
\* the other future classes attended
RECURSIVE BunkLoopAttendRest(_, _, _, _, _, _)
BunkLoopAttendRest(self, present, total, future_classes, bunks, max_bunks) ==
    IF bunks > future_classes THEN max_bunks
    ELSE LET new_total == total + future_classes
         IN  IF 100 * (present + future_classes - bunks) >= self.safe_target * new_total
             THEN BunkLoopAttendRest(self, present, total, future_classes, bunks + 1, bunks)
             ELSE max_bunks

\* the loop of lines 59-66: new_percentage does not depend on bunks
RECURSIVE BunkLoop(_, _, _, _, _, _)
BunkLoop(self, present, total, future_classes, bunks, max_bunks) ==
    IF bunks > future_classes THEN max_bunks
    ELSE LET new_total == total + future_classes
         IN  IF 100 * present >= self.safe_target * new_total
             THEN BunkLoop(self, present, total, future_classes, bunks + 1, bunks)
             ELSE max_bunks

MaxBunks(self, present, total, future_classes) ==
    BunkLoop(self, present, total, future_classes, 0, 0)

\* lines 69-72
ClassesNeeded(self, present, total) ==
    IF total > 0 /\ 100 * present >= self.safe_target * total
    THEN 0
    ELSE Max(0, IntTrunc(self.safe_target * total - 100 * present,
                         100 - self.safe_target) + 1)

calculate_bunk_allowance(self, present, total, future_classes) ==
    IF total + future_classes = 0
    THEN \* line 61 divides by new_total on the first iteration
         [raised |-> "ZeroDivisionError"]
    ELSE [raised |-> "none",
          present |-> present,
          total |-> total,
          current_percentage |-> Percentage(present, total),
          max_safe_bunks |-> MaxBunks(self, present, total, future_classes),
          classes_needed_if_below |-> ClassesNeeded(self, present, total),
          is_safe |-> (total > 0 /\ 100 * present >= self.safe_target * total),
          buffer |-> IF total > 0
                     THEN RoundHalfEven(10000 * present
                                          - 100 * self.target_percentage * total, total)
                     ELSE -100 * self.target_percentage]

----------------------------------------------------------------------------
(* The calculator on its own: every call of calculate_bunk_allowance *)

\* calculator = AttendanceCalculator(target_percentage=75.0, safety_buffer=1.0)
NewCalculator ==
    /\ calculator' = AttendanceCalculator(75, 1)
    /\ calcArgs' = None
    /\ calcResult' = None
    /\ UNCHANGED <<calcSeen, libVars, storeVars, tableVars, now, response, scrapeVars>>

\* the method with a cache: it keeps every analysed subject on the instance
SelfAfterCallCaching(self, present, total, future_classes) ==
    [self EXCEPT !.attendance_data =
        Append(@, [present |-> present, total |-> total])]

\* the instance after a call: lines 40-82 assign no attribute of self
SelfAfterCall(self, present, total, future_classes) == self

\* the first call with arguments this small is kept in calcSeen, with whether
\* a call with other arguments has been made since
Remembered(present, total, future_classes) ==
    present <= MaxSeen /\ total <= MaxSeen /\ future_classes <= MaxSeen

CallBunkAllowance ==
    \E present \in 0..MaxTotal, total \in 0..MaxTotal, future_classes \in 0..MaxFuture :
        LET args == [present |-> present, total |-> total,
                     future_classes |-> future_classes]
            result == calculate_bunk_allowance(calculator, present, total,
                                               future_classes)
        IN  /\ calcArgs' = args
            /\ calcResult' = result
            /\ calculator' = SelfAfterCall(calculator, present, total, future_classes)
            /\ calcSeen' =
                  IF calcSeen = None
                  THEN IF Remembered(present, total, future_classes)
                       THEN [args |-> args, result |-> result, between |-> FALSE]
                       ELSE None
                  ELSE [calcSeen EXCEPT !.between = @ \/ args # calcSeen.args]
            /\ UNCHANGED <<libVars, storeVars, tableVars, now, response, scrapeVars>>

----------------------------------------------------------------------------
(* database.py: users and attendance *)

NoDate == -1          \* semester_start / semester_end is None
NoneStr == "None"     \* a string field that is None

\* the user document of create_user
NewUser ==
    [erp_username |-> NoneStr,
     erp_password_encrypted |-> NoneStr,
     semester_start |-> NoDate,
     semester_end |-> NoDate,
     target_percentage |-> 75]

EmptyDict == [k \in {} |-> None]

Put(d, k, v) == [x \in (DOMAIN d) \cup {k} |-> IF x = k THEN v ELSE d[x]]

Del(d, k) == [x \in (DOMAIN d) \ {k} |-> d[x]]

\* the document written for a subject by save_attendance, update_subject
\* and add_subject
SubjectRecord(name, present, total) ==
    [subject |-> name,
     present |-> present,
     total |-> total,
     percentage |-> Percentage(present, total)]

update_user_config(usr, user_id, erp_username, erp_password, semester_start, semester_end) ==
    [usr EXCEPT ![user_id] =
        [@ EXCEPT
           !.erp_username = IF erp_username # NoneStr THEN erp_username ELSE @,
           !.erp_password_encrypted =
               IF erp_password # NoneStr THEN erp_password ELSE @,
           !.semester_start = IF semester_start # NoDate THEN semester_start ELSE @,
           !.semester_end = IF semester_end # NoDate THEN semester_end ELSE @]]

\* None when no usable credentials are stored
get_erp_credentials(usr, user_id) ==
    /\ usr[user_id].erp_username \notin {NoneStr, ""}
    /\ usr[user_id].erp_password_encrypted \notin {NoneStr, ""}

get_user_config(usr, user_id) ==
    [erp_username |-> usr[user_id].erp_username,
     semester_start |-> usr[user_id].semester_start,
     semester_end |-> usr[user_id].semester_end,
     target_percentage |-> usr[user_id].target_percentage,
     setup_complete |-> (usr[user_id].semester_start # NoDate
                           /\ usr[user_id].semester_end # NoDate)]

\* update_subject writing the counts only, the percentage left as stored
update_subject_counts_only(att, user_id, subject_name, present, total) ==
    IF subject_name \in DOMAIN att[user_id]
    THEN [att EXCEPT ![user_id][subject_name] =
            [@ EXCEPT !.present = present, !.total = total]]
    ELSE [att EXCEPT ![user_id] =
            Put(@, subject_name, SubjectRecord(subject_name, present, total))]

update_subject(att, user_id, subject_name, present, total) ==
    [att EXCEPT ![user_id] =
        Put(@, subject_name, SubjectRecord(subject_name, present, total))]

\* add_subject: the result and the store it leaves
add_subject_success(att, user_id, subject_name) ==
    subject_name \notin DOMAIN att[user_id]

\* add_subject without the test of lines 599-600 / 615-617
add_subject_overwriting(att, user_id, subject_name, present, total) ==
    [att EXCEPT ![user_id] =
        Put(@, subject_name, SubjectRecord(subject_name, present, total))]

add_subject(att, user_id, subject_name, present, total) ==
    IF add_subject_success(att, user_id, subject_name)
    THEN [att EXCEPT ![user_id] =
            Put(@, subject_name, SubjectRecord(subject_name, present, total))]
    ELSE att

\* a delete that drops every subject of the user once the name is found
delete_subject_with_the_rest(att, user_id, subject_name) ==
    IF subject_name \in DOMAIN att[user_id]
    THEN [att EXCEPT ![user_id] = EmptyDict]
    ELSE att

delete_subject_found(att, user_id, subject_name) ==
    subject_name \in DOMAIN att[user_id]

delete_subject(att, user_id, subject_name) ==
    IF delete_subject_found(att, user_id, subject_name)
    THEN [att EXCEPT ![user_id] = Del(@, subject_name)]
    ELSE att

\* save_attendance: one upsert per scraped subject, in list order
RECURSIVE save_attendance(_, _, _)
save_attendance(att, user_id, subjects) ==
    IF subjects = <<>> THEN att
    ELSE LET s == Head(subjects)
         IN  save_attendance(
                 [att EXCEPT ![user_id] =
                     Put(@, s.subject, SubjectRecord(s.subject, s.present, s.total))],
                 user_id, Tail(subjects))

\* the value of scrape_history in the specifications that do not follow it
Untracked == [untracked |-> TRUE]

RECURSIVE SumList(_, _)
SumList(subjects, field) ==
    IF subjects = <<>> THEN 0
    ELSE Head(subjects)[field] + SumList(Tail(subjects), field)

\* the document save_attendance appends for one scrape (overall is None)
ScrapeEntry(subjects) ==
    [subject_count |-> Len(subjects),
     total_present |-> SumList(subjects, "present"),
     total_classes |-> SumList(subjects, "total"),
     overall_percentage |->
         Percentage(SumList(subjects, "present"), SumList(subjects, "total")),
     subjects_snapshot |-> subjects]

\* lines 362-377 and 414-423: the history after save_attendance
record_scrape(hist, user_id, subjects) ==
    IF hist = Untracked THEN hist
    ELSE IF user_id \in DOMAIN hist
    THEN [hist EXCEPT ![user_id] = Append(@, ScrapeEntry(subjects))]
    ELSE Put(hist, user_id, <<ScrapeEntry(subjects)>>)

\* the history of user_id has room for one more scrape
HistoryRoom(hist, user_id) ==
    IF hist = Untracked THEN TRUE
    ELSE IF user_id \notin DOMAIN hist THEN TRUE
    ELSE Len(hist[user_id]) < MaxHistory

----------------------------------------------------------------------------
(* app.py: the attendance routes *)

Reply(route, code, error) == [route |-> route, code |-> code, error |-> error]

\* what a request body may carry
NameInputs == Subjects \cup {""}
PresentInputs == (-1)..(MaxCount + 1)
TotalInputs == 0..MaxCount

\* a JSON value of the body: absent, a text that is no number, or a number
\* given in halves (3 stands for 1.5)
Missing == [kind |-> "missing", halves |-> 0]
Text == [kind |-> "text", halves |-> 0]
Num(h) == [kind |-> "num", halves |-> h]

\* int() rounding up, away from what Python does for positive numbers
int_ceiling(v) == IF v.halves >= 0 THEN (v.halves + 1) \div 2 ELSE -((-v.halves) \div 2)

\* int(x) of a number truncates toward zero
int(v) == IF v.halves >= 0 THEN v.halves \div 2 ELSE -((-v.halves) \div 2)

\* the bodies a client may post: int() of them covers PresentInputs and
\* TotalInputs
RawPresent == {Missing, Text} \cup {Num(h) : h \in (-3)..(2 * MaxCount + 3)}
RawTotal == {Missing, Text} \cup {Num(h) : h \in (-1)..(2 * MaxCount + 1)}
UpdateBodies == [subject : NameInputs, present : RawPresent, total : RawTotal]

\* lines 517-541: update_attendance on the body data
update_attendance_data(user_id, data) ==
    /\ IF data.subject = "" \/ data.present = Missing \/ data.total = Missing
       THEN /\ response' = Reply("update-attendance", 400,
                                 "Subject name, present, and total are required")
            /\ UNCHANGED attendance
       ELSE IF data.present = Text \/ data.total = Text
       THEN \* int() raises ValueError
            /\ response' = Reply("update-attendance", 500, "ValueError")
            /\ UNCHANGED attendance
       ELSE LET new_present == int(data.present)
                new_total == int(data.total)
            IN  IF new_total <= 0
                THEN /\ response' = Reply("update-attendance", 400,
                                          "Total must be greater than 0")
                     /\ UNCHANGED attendance
                ELSE IF new_present < 0 \/ new_present > new_total
                THEN /\ response' = Reply("update-attendance", 400,
                                          "Present must be between 0 and total")
                     /\ UNCHANGED attendance
                ELSE /\ attendance' = update_subject(attendance, user_id, data.subject,
                                                     new_present, new_total)
                     /\ response' = Reply("update-attendance", 200, "")
    /\ UNCHANGED <<calcVars, dbCall, dayCount, users, tableVars, now, scrapeVars>>

\* POST /api/update-attendance
update_attendance(user_id) ==
    \E data \in UpdateBodies :
        /\ update_attendance_data(user_id, data)
        /\ UNCHANGED request

\* POST /api/update-attendance, the body kept for inspection
PostUpdateAttendance(user_id) ==
    \E data \in UpdateBodies :
        /\ update_attendance_data(user_id, data)
        /\ request' = data

\* POST /api/add-subject
add_subject_route(user_id) ==
    /\ \/ \* int() raises ValueError on a non-numeric field
          /\ response' = Reply("add-subject", 500, "ValueError")
          /\ UNCHANGED attendance
       \/ \E subject_name \in NameInputs, present \in PresentInputs,
             total \in TotalInputs :
             IF subject_name = "" \/ total <= 0
             THEN /\ response' = Reply("add-subject", 400,
                                       "Valid subject name and total required")
                  /\ UNCHANGED attendance
             ELSE IF add_subject_success(attendance, user_id, subject_name)
             THEN /\ attendance' = add_subject(attendance, user_id, subject_name,
                                               present, total)
                  /\ response' = Reply("add-subject", 200, "")
             ELSE /\ response' = Reply("add-subject", 400, "Subject already exists")
                  /\ UNCHANGED attendance
    /\ UNCHANGED <<calcVars, libVars, users, tableVars, now, scrapeVars>>

\* a reply whose message names the subject, for the user of the session
ReplyAbout(route, code, error, user_id, subject) ==
    [route |-> route, code |-> code, error |-> error, user_id |-> user_id,
     subject |-> subject]

\* POST /api/delete-subject
delete_subject_route(user_id) ==
    \E subject_name \in NameInputs :
        /\ IF subject_name = ""
           THEN /\ response' = Reply("delete-subject", 400, "Subject name required")
                /\ UNCHANGED attendance
           ELSE IF delete_subject_found(attendance, user_id, subject_name)
           THEN /\ attendance' = delete_subject(attendance, user_id, subject_name)
                /\ response' = ReplyAbout("delete-subject", 200, "", user_id,
                                          subject_name)
           ELSE /\ response' = ReplyAbout("delete-subject", 404, "not found",
                                          user_id, subject_name)
                /\ UNCHANGED attendance
        /\ UNCHANGED <<calcVars, libVars, users, tableVars, now, scrapeVars>>

\* what extract_attendance_data can return for one subject card: the regex
\* groups are \d+ and the card is kept only when total > 0
ScrapedSubject(name) ==
    {[subject |-> name, present |-> p, total |-> t] :
        p \in 0..(MaxCount + 1), t \in 1..MaxCount}

\* the non-empty list it returns, sorted by subject name, one entry per name
ScrapedLists ==
    {<<a>> : a \in ScrapedSubject("s1") \cup ScrapedSubject("s2")}
        \cup IF MaxScraped >= 2
             THEN {<<a, b>> : a \in ScrapedSubject("s1"), b \in ScrapedSubject("s2")}
             ELSE {}

\* db.save_attendance(user_id, subjects, overall=None) of a finished scrape
SaveScraped(user_id) ==
    \E subjects \in ScrapedLists :
        /\ HistoryRoom(scrape_history, user_id)
        /\ attendance' = save_attendance(attendance, user_id, subjects)
        /\ scrape_history' = record_scrape(scrape_history, user_id, subjects)
        /\ UNCHANGED <<calcVars, libVars, users, timetable, now, response, scrapeVars>>

----------------------------------------------------------------------------
(* database.py called directly: any sequence of calls of its functions *)

\* the user whose store the calls are made on
DbUsers == {"u1"}

\* the counts a call may carry: add_subject and update_subject check nothing
DbPresent == 0..MaxDbCount
DbTotal == 0..MaxDbCount

\* the subject lists save_attendance is called with
DbLists ==
    {<<[subject |-> n, present |-> p, total |-> t]>> :
        n \in Subjects, p \in DbPresent, t \in DbTotal} \cup ScrapedLists

\* what add_subject returns
add_subject_result(att, user_id, subject_name) ==
    IF add_subject_success(att, user_id, subject_name)
    THEN [success |-> TRUE, error |-> ""]
    ELSE [success |-> FALSE, error |-> "Subject already exists"]

\* save_attendance called with one of lists
CallSaveAttendanceOf(user_id, lists) ==
    \E subjects \in lists :
        /\ HistoryRoom(scrape_history, user_id)
        /\ attendance' = save_attendance(attendance, user_id, subjects)
        /\ scrape_history' = record_scrape(scrape_history, user_id, subjects)
        /\ dbCall' = [fn |-> "save_attendance", user_id |-> user_id,
                      args |-> subjects, result |-> TRUE]
        /\ UNCHANGED <<calcVars, dayCount, request, users, timetable, now, response,
                       scrapeVars>>

CallSaveAttendance(user_id) == CallSaveAttendanceOf(user_id, DbLists)

\* update_subject called with a name of names and counts of presents, totals
CallUpdateSubjectOf(user_id, names, presents, totals) ==
    \E subject_name \in names, present \in presents, total \in totals :
        /\ attendance' = update_subject(attendance, user_id, subject_name,
                                        present, total)
        /\ dbCall' = [fn |-> "update_subject", user_id |-> user_id,
                      args |-> SubjectRecord(subject_name, present, total),
                      result |-> TRUE]
        /\ UNCHANGED <<calcVars, dayCount, request, users, tableVars, now, response,
                       scrapeVars>>

CallUpdateSubject(user_id) == CallUpdateSubjectOf(user_id, Subjects, DbPresent, DbTotal)

CallAddSubjectOf(user_id, names, presents, totals) ==
    \E subject_name \in names, present \in presents, total \in totals :
        /\ attendance' = add_subject(attendance, user_id, subject_name,
                                     present, total)
        /\ dbCall' = [fn |-> "add_subject", user_id |-> user_id,
                      args |-> SubjectRecord(subject_name, present, total),
                      result |-> add_subject_result(attendance, user_id,
                                                    subject_name)]
        /\ UNCHANGED <<calcVars, dayCount, request, users, tableVars, now, response,
                       scrapeVars>>

CallAddSubject(user_id) == CallAddSubjectOf(user_id, Subjects, DbPresent, DbTotal)

CallDeleteSubjectOf(user_id, names) ==
    \E subject_name \in names :
        /\ attendance' = delete_subject(attendance, user_id, subject_name)
        /\ dbCall' = [fn |-> "delete_subject", user_id |-> user_id,
                      args |-> subject_name,
                      result |-> delete_subject_found(attendance, user_id,
                                                      subject_name)]
        /\ UNCHANGED <<calcVars, dayCount, request, users, tableVars, now, response,
                       scrapeVars>>

CallDeleteSubject(user_id) == CallDeleteSubjectOf(user_id, Subjects)

----------------------------------------------------------------------------
(* The working-day counter of the timetable projection. Calendar dates are
   day numbers, day 0 being a Monday; weekdays are 0..6, Monday = 0. *)

Weekdays == 0..6

Weekday(date) == date % 7

\* the walk stopping one day early
RECURSIVE WalkDaysExclusive(_, _, _)
WalkDaysExclusive(current, endDate, counts) ==
    IF current >= endDate THEN counts
    ELSE WalkDaysExclusive(current + 1, endDate,
             IF Weekday(current) \in DOMAIN counts
             THEN [counts EXCEPT ![Weekday(current)] = @ + 1]
             ELSE counts)

\* every calendar day from current to endDate inclusive, one at a time
RECURSIVE WalkDays(_, _, _)
WalkDays(current, endDate, counts) ==
    IF current > endDate THEN counts
    ELSE WalkDays(current + 1, endDate,
             IF Weekday(current) \in DOMAIN counts
             THEN [counts EXCEPT ![Weekday(current)] = @ + 1]
             ELSE counts)

countWorkingDays(startDate, endDate, enabledDays) ==
    WalkDays(startDate, endDate, [w \in enabledDays |-> 0])

CallCountWorkingDays ==
    /\ dayCount # None
    /\ ~dayCount.called
    /\ dayCount' = [dayCount EXCEPT
                       !.called = TRUE,
                       !.result = countWorkingDays(dayCount.startDate,
                                                   dayCount.endDate,
                                                   dayCount.enabledDays)]
    /\ UNCHANGED <<calcVars, dbCall, request, storeVars, tableVars, now, response,
                   scrapeVars>>

----------------------------------------------------------------------------
(* app.py: /api/predictions and /api/latest-data *)

BadDate == -2         \* a semester_end string strptime rejects

RECURSIVE SumOver(_, _, _)
SumOver(d, keys, field) ==
    IF keys = {} THEN 0
    ELSE LET k == CHOOSE x \in keys : TRUE
         IN  d[k][field] + SumOver(d, keys \ {k}, field)

\* lines 1148-1163 without the max(0, ...) of line 1161
RemainingWeeksUnclamped(config, clock) ==
    IF config.semester_end \in {NoDate, BadDate}
    THEN 8
    ELSE LET remaining_days == IF clock.midnight
                               THEN config.semester_end - clock.day
                               ELSE config.semester_end - clock.day - 1
         IN  remaining_days \div 7

\* lines 1148-1163: the weeks left, from semester_end and datetime.now()
RemainingWeeks(config, clock) ==
    IF config.semester_end \in {NoDate, BadDate}
    THEN 8
    ELSE LET remaining_days == IF clock.midnight
                               THEN config.semester_end - clock.day
                               ELSE config.semester_end - clock.day - 1
         IN  Max(0, remaining_days \div 7)

\* line 1185 with the upper clamp of the written contract
NeededFor75Clamped(total, present, remaining_classes) ==
    LET n == Max(0, Ceil75(total + remaining_classes) - present)
    IN  IF n > remaining_classes THEN remaining_classes ELSE n

\* line 1185: max(0, math.ceil(0.75 * future_total) - present)
NeededFor75(total, present, remaining_classes) ==
    Max(0, Ceil75(total + remaining_classes) - present)

\* line 1186 without the max
CanSkipUnclamped(remaining_classes, needed_for_75) ==
    remaining_classes - needed_for_75

\* line 1186: max(0, remaining_classes - needed_for_75)
CanSkip(remaining_classes, needed_for_75) ==
    Max(0, remaining_classes - needed_for_75)

\* lines 1197-1213 with >= in line 1202
RiskLevelCriticalAtEqual(current_pct, needed_for_75, remaining_classes) ==
    IF current_pct < 7500
    THEN IF needed_for_75 >= remaining_classes THEN "critical" ELSE "danger"
    ELSE IF current_pct < 8500 THEN "warning"
    ELSE "safe"

\* lines 1197-1213 with the boundaries on the lower tier
RiskLevelExclusive(current_pct, needed_for_75, remaining_classes) ==
    IF current_pct <= 7500
    THEN IF needed_for_75 > remaining_classes THEN "critical" ELSE "danger"
    ELSE IF current_pct <= 8500 THEN "warning"
    ELSE "safe"

\* lines 1197-1213
RiskLevel(current_pct, needed_for_75, remaining_classes) ==
    IF current_pct < 7500
    THEN IF needed_for_75 > remaining_classes THEN "critical" ELSE "danger"
    ELSE IF current_pct < 8500 THEN "warning"
    ELSE "safe"

\* lines 1178-1181 with the attended classes left out of the numerator
IfAttendAllMissed(present, total, remaining_classes) ==
    Percentage(present, total + remaining_classes)

\* lines 1178-1181
IfAttendAll(present, total, remaining_classes) ==
    Percentage(present + remaining_classes, total + remaining_classes)

\* lines 1188-1195
AtCurrentRate(present, total, remaining_classes) ==
    IF total > 0
    THEN Percentage(present + IntTrunc(remaining_classes * present, total),
                    total + remaining_classes)
    ELSE 0

\* the body of the loop of lines 1168-1229 for one stored subject
Prediction(subject, remaining_weeks) ==
    LET present == subject.present
        total == subject.total
        current_pct == subject.percentage
        classes_per_week == 2
        remaining_classes == remaining_weeks * classes_per_week
        needed_for_75 == NeededFor75(total, present, remaining_classes)
        can_skip == CanSkip(remaining_classes, needed_for_75)
    IN  [subject |-> subject.subject,
         current |-> [present |-> present, total |-> total,
                      percentage |-> current_pct],
         remaining_classes |-> remaining_classes,
         if_attend_all |-> IfAttendAll(present, total, remaining_classes),
         at_current_rate |-> AtCurrentRate(present, total, remaining_classes),
         classes_needed_75 |-> needed_for_75,
         can_skip |-> can_skip,
         risk_level |-> RiskLevel(current_pct, needed_for_75, remaining_classes)]

\* GET /api/predictions
get_predictions(user_id) ==
    LET config == get_user_config(users, user_id)
        attendance_data == attendance[user_id]
        remaining_weeks == RemainingWeeks(config, now)
        names == DOMAIN attendance_data
        total_present == SumOver(attendance_data, names, "present")
        total_classes == SumOver(attendance_data, names, "total")
        overall_remaining == remaining_weeks * 2 * Cardinality(names)
    IN  /\ IF names = {}
           THEN response' = Reply("predictions", 404, "No attendance data")
           ELSE response' =
                  [route |-> "predictions", code |-> 200, error |-> "",
                   user_id |-> user_id,
                   predictions |->
                       [n \in names |-> Prediction(attendance_data[n], remaining_weeks)],
                   risk_alerts |->
                       {n \in names :
                           Prediction(attendance_data[n], remaining_weeks).risk_level
                               \in {"danger", "critical"}},
                   overall |->
                       [current_pct |-> Percentage(total_present, total_classes),
                        if_attend_all |->
                            Percentage(total_present + overall_remaining,
                                       total_classes + overall_remaining),
                        remaining_weeks |-> remaining_weeks]]
        /\ UNCHANGED <<calcVars, libVars, storeVars, tableVars, now, scrapeVars>>

\* lines 336-355: the per-subject part of /api/latest-data
Enhanced(subject) ==
    [subject |-> subject.subject,
     present |-> subject.present,
     total |-> subject.total,
     percentage |-> subject.percentage,
     remaining_classes |-> 0,
     classes_needed_75 |-> 0,
     can_skip |-> 0,
     projected_percentage |-> subject.percentage,
     expected_total_semester |-> 0]

\* lines 360-362: the three counts of the statistics
SafeTier(percentage) == percentage >= 8500

\* line 361 with 75 excluded
WarningTierExclusive(percentage) == 7500 < percentage /\ percentage < 8500

WarningTier(percentage) == 7500 <= percentage /\ percentage < 8500

DangerTier(percentage) == percentage < 7500

\* the mean of the per-subject percentages
MeanOfPercentages(attendance_data) ==
    LET names == DOMAIN attendance_data
    IN  IF names = {} THEN 0
        ELSE RoundHalfEven(SumOver(attendance_data, names, "percentage"),
                           Cardinality(names))

\* lines 364-372 and 400: round(overall_attendance, 2)
OverallAttendance(attendance_data) ==
    LET names == DOMAIN attendance_data
    IN  Percentage(SumOver(attendance_data, names, "present"),
                   SumOver(attendance_data, names, "total"))

\* GET /api/latest-data
get_latest_data(user_id) ==
    LET attendance_data == attendance[user_id]
        names == DOMAIN attendance_data
        total_present_all == SumOver(attendance_data, names, "present")
        total_classes_all == SumOver(attendance_data, names, "total")
    IN  /\ IF names = {}
           THEN response' = Reply("latest-data", 404, "No data found")
           ELSE response' =
                  [route |-> "latest-data", code |-> 200, error |-> "",
                   user_id |-> user_id,
                   subjects |-> [n \in names |-> Enhanced(attendance_data[n])],
                   stats |->
                       [total |-> Cardinality(names),
                        safe |-> Cardinality(
                            {n \in names : SafeTier(attendance_data[n].percentage)}),
                        warning |-> Cardinality(
                            {n \in names : WarningTier(attendance_data[n].percentage)}),
                        danger |-> Cardinality(
                            {n \in names : DangerTier(attendance_data[n].percentage)}),
                        average |-> OverallAttendance(attendance_data),
                        total_present |-> total_present_all,
                        total_classes |-> total_classes_all]]
        /\ UNCHANGED <<calcVars, libVars, storeVars, tableVars, now, scrapeVars>>

----------------------------------------------------------------------------
(* app.py: the scraper status and the background scrape *)

\* the status dict get_scraper_status creates for a user it has not seen
FreshStatus ==
    [running |-> FALSE, progress |-> "", error |-> NoneStr, complete |-> FALSE]

\* get_scraper_status: the dict of app.scraper_status after the lookup
get_scraper_status(ss, user_id) ==
    IF user_id \in DOMAIN ss THEN ss ELSE Put(ss, user_id, FreshStatus)

\* threading.Thread(target=run_scraper_background, ...).start()
StartThread(user_id) ==
    Append(threads, [user_id |-> user_id, pc |-> "start", driver |-> "none"])

\* what a request may carry as ERP username / password
CredInputs == {NoneStr, "erp"}
Truthy(x) == x \notin {NoneStr, ""}

\* POST /api/setup
setup(user_id) ==
    \E erp_username \in CredInputs, password \in CredInputs,
       semester_start \in {0}, semester_end \in {MaxSemDay} :
        /\ Truthy(password) /\ Truthy(erp_username) => Len(threads) < MaxThreads
        /\ users' = update_user_config(users, user_id, erp_username, password,
                                       semester_start, semester_end)
        /\ threads' = IF Truthy(password) /\ Truthy(erp_username)
                      THEN StartThread(user_id)
                      ELSE threads
        /\ response' = Reply("setup", 200, "Setup complete!")
        /\ UNCHANGED <<calcVars, libVars, attendance, tableVars, now, scraper_status>>

\* lines 307-309: db.delete_subject for every subject of get_attendance
RECURSIVE delete_all(_, _, _)
delete_all(att, user_id, names) ==
    IF names = {} THEN att
    ELSE LET n == CHOOSE x \in names : TRUE
         IN  delete_all(delete_subject(att, user_id, n), user_id, names \ {n})

\* POST /api/reset-config
reset_config(user_id) ==
    /\ attendance' = delete_all(attendance, user_id, DOMAIN attendance[user_id])
    /\ users' = update_user_config(users, user_id, NoneStr, NoneStr, NoDate, NoDate)
    /\ response' = [route |-> "reset-config", code |-> 200, error |-> "",
                    user_id |-> user_id]
    /\ UNCHANGED <<calcVars, libVars, tableVars, now, scrapeVars>>

\* POST /api/scrape
start_scrape(user_id) ==
    \E username \in CredInputs, password \in CredInputs :
        IF ~Truthy(username) \/ ~Truthy(password)
        THEN /\ response' = Reply("scrape", 400, "Username and password required")
             /\ UNCHANGED <<calcVars, libVars, storeVars, tableVars, now, scrapeVars>>
        ELSE /\ Len(threads) < MaxThreads
             /\ users' = update_user_config(users, user_id, username, password,
                                            NoDate, NoDate)
             /\ threads' = StartThread(user_id)
             /\ response' = Reply("scrape", 200, "Scraping started")
             /\ UNCHANGED <<calcVars, libVars, attendance, tableVars, now, scraper_status>>

\* POST /api/auto-sync
auto_sync(user_id) ==
    IF ~get_erp_credentials(users, user_id)
    THEN /\ response' = Reply("auto-sync", 400, "ERP credentials not configured")
         /\ UNCHANGED <<calcVars, libVars, storeVars, tableVars, now, scrapeVars>>
    ELSE LET ss == get_scraper_status(scraper_status, user_id)
         IN  IF ss[user_id].running
             THEN /\ scraper_status' = ss
                  /\ response' = Reply("auto-sync", 200, "Sync already in progress")
                  /\ UNCHANGED <<calcVars, libVars, storeVars, tableVars, now, threads>>
             ELSE /\ Len(threads) < MaxThreads
                  /\ scraper_status' = ss
                  /\ threads' = StartThread(user_id)
                  /\ response' = Reply("auto-sync", 200, "Syncing with ERP...")
                  /\ UNCHANGED <<calcVars, libVars, storeVars, tableVars, now>>

\* GET /api/scrape-status
scrape_status_route(user_id) ==
    /\ scraper_status' = get_scraper_status(scraper_status, user_id)
    /\ response' = Reply("scrape-status", 200, "")
    /\ UNCHANGED <<calcVars, libVars, storeVars, tableVars, now, threads>>

(* run_scraper_background, one action per stretch of code between two
   blocking calls (browser, ERP, database) *)

SetStatus(user_id, st) == [scraper_status EXCEPT ![user_id] = st]

Goto(i, pc) == [threads EXCEPT ![i].pc = pc]

\* lines 74-78
T_Begin(i) ==
    LET u == threads[i].user_id
        ss == get_scraper_status(scraper_status, u)
    IN  /\ threads[i].pc = "start"
        /\ scraper_status' = [ss EXCEPT ![u] =
               [running |-> TRUE, progress |-> "Initializing...",
                error |-> NoneStr, complete |-> FALSE]]
        /\ threads' = Goto(i, "setup")
        /\ UNCHANGED <<calcVars, libVars, storeVars, tableVars, now, response>>

\* lines 81-84: setup_driver() opens the browser or re-raises
T_SetupDriver(i) ==
    LET u == threads[i].user_id
    IN  /\ threads[i].pc = "setup"
        /\ scraper_status' =
               SetStatus(u, [scraper_status[u] EXCEPT !.progress = "Setting up browser..."])
        /\ \/ threads' = [threads EXCEPT ![i].pc = "login", ![i].driver = "open"]
           \/ threads' = Goto(i, "except")
        /\ UNCHANGED <<calcVars, libVars, storeVars, tableVars, now, response>>

\* lines 86-90
T_Login(i) ==
    LET u == threads[i].user_id
    IN  /\ threads[i].pc = "login"
        /\ \/ /\ scraper_status' =
                     SetStatus(u, [scraper_status[u] EXCEPT !.progress = "Logging in..."])
              /\ threads' = Goto(i, "navigate")
           \/ /\ scraper_status' =
                     SetStatus(u, [scraper_status[u] EXCEPT
                                      !.progress = "Logging in...",
                                      !.error = "Login failed",
                                      !.running = FALSE])
              /\ threads' = Goto(i, "finally")
        /\ UNCHANGED <<calcVars, libVars, storeVars, tableVars, now, response>>

\* lines 92-96
T_Navigate(i) ==
    LET u == threads[i].user_id
    IN  /\ threads[i].pc = "navigate"
        /\ \/ /\ scraper_status' =
                     SetStatus(u, [scraper_status[u] EXCEPT
                                      !.progress = "Navigating to attendance..."])
              /\ threads' = Goto(i, "extract")
           \/ /\ scraper_status' =
                     SetStatus(u, [scraper_status[u] EXCEPT
                                      !.progress = "Navigating to attendance...",
                                      !.error = "Navigation failed",
                                      !.running = FALSE])
              /\ threads' = Goto(i, "finally")
        /\ UNCHANGED <<calcVars, libVars, storeVars, tableVars, now, response>>

\* lines 98-99
T_Extract(i) ==
    LET u == threads[i].user_id
    IN  /\ threads[i].pc = "extract"
        /\ scraper_status' =
               SetStatus(u, [scraper_status[u] EXCEPT !.progress = "Extracting data..."])
        /\ threads' = Goto(i, "save")
        /\ UNCHANGED <<calcVars, libVars, storeVars, tableVars, now, response>>

\* lines 101-126: extract_attendance_data returned None or a non-empty list,
\* one of lists
T_SaveOf(i, lists) ==
    LET u == threads[i].user_id
    IN  /\ threads[i].pc = "save"
        /\ \/ \* data is None
              /\ scraper_status' =
                     SetStatus(u, [scraper_status[u] EXCEPT !.error = "No data found"])
              /\ threads' = Goto(i, "quit")
              /\ UNCHANGED <<attendance, scrape_history>>
           \/ \* db.save_attendance raises
              /\ scraper_status' =
                     SetStatus(u, [scraper_status[u] EXCEPT !.progress = "Saving data..."])
              /\ threads' = Goto(i, "except")
              /\ UNCHANGED <<attendance, scrape_history>>
           \/ \E subjects \in lists :
                 /\ HistoryRoom(scrape_history, u)
                 /\ attendance' = save_attendance(attendance, u, subjects)
                 /\ scrape_history' = record_scrape(scrape_history, u, subjects)
                 /\ scraper_status' =
                        SetStatus(u, [scraper_status[u] EXCEPT
                                         !.progress = "Complete!",
                                         !.complete = TRUE])
                 /\ threads' = Goto(i, "quit")
        /\ UNCHANGED <<calcVars, libVars, users, timetable, now, response>>

\* the ERP page shows any of the subject lists
T_Save(i) == T_SaveOf(i, ScrapedLists)

\* the ERP page shows one subject, attended once out of one class
OneScraped == <<[subject |-> "s1", present |-> 1, total |-> 1]>>

T_SaveOne(i) == T_SaveOf(i, {OneScraped})

\* lines 128-129
T_Quit(i) ==
    /\ threads[i].pc = "quit"
    /\ threads' = [threads EXCEPT
                      ![i].pc = "finally",
                      ![i].driver = IF @ = "open" THEN "quit" ELSE @]
    /\ UNCHANGED <<calcVars, libVars, storeVars, tableVars, now, response, scraper_status>>

\* an except clause that swallows the exception without recording it
T_ExceptSilent(i) ==
    /\ threads[i].pc = "except"
    /\ threads' = Goto(i, "finally")
    /\ UNCHANGED <<calcVars, libVars, storeVars, tableVars, now, response, scraper_status>>

\* lines 131-132
T_Except(i) ==
    LET u == threads[i].user_id
    IN  /\ threads[i].pc = "except"
        /\ scraper_status' =
               SetStatus(u, [scraper_status[u] EXCEPT !.error = "exception"])
        /\ threads' = Goto(i, "finally")
        /\ UNCHANGED <<calcVars, libVars, storeVars, tableVars, now, response>>

\* lines 133-134
T_Finally(i) ==
    LET u == threads[i].user_id
    IN  /\ threads[i].pc = "finally"
        /\ scraper_status' =
               SetStatus(u, [scraper_status[u] EXCEPT !.running = FALSE])
        /\ threads' = Goto(i, "done")
        /\ UNCHANGED <<calcVars, libVars, storeVars, tableVars, now, response>>

----------------------------------------------------------------------------
(* database.py and app.py: the timetable *)

\* the subject names, days and start times of timetable entries
EntryNames == {"s", "S1", "x"}
EntryDays == {0}
EntryTimes == {"09:00", "10:00"}

\* the order of the start_time strings
TimeRank(start_time) == IF start_time = "09:00" THEN 0 ELSE 1

\* the document stored for an entry (raw_text and created_at left out)
TimetableEntry(subject, day, start_time, end_time) ==
    [subject |-> subject, day |-> day, start_time |-> start_time,
     end_time |-> end_time]

Entries ==
    {TimetableEntry(subject, day, start_time, "11:00") :
        subject \in EntryNames, day \in EntryDays, start_time \in EntryTimes}

\* the lists of at most n entries
RECURSIVE EntryLists(_)
EntryLists(n) ==
    IF n = 0 THEN {<<>>}
    ELSE EntryLists(n - 1)
            \cup {Append(l, e) : l \in {x \in EntryLists(n - 1) : Len(x) = n - 1},
                                 e \in Entries}

\* data['timetable'].get(user_id, [])
EntriesOf(tt, user_id) == IF user_id \in DOMAIN tt THEN tt[user_id] ELSE <<>>

save_timetable(tt, user_id, timetable_entries) ==
    Put(tt, user_id, timetable_entries)

add_timetable_entry(tt, user_id, subject, day, start_time, end_time) ==
    Put(tt, user_id,
        Append(EntriesOf(tt, user_id),
               TimetableEntry(subject, day, start_time, end_time)))

\* the entry is the one delete_timetable_entry is asked to delete
SameSlot(e, subject, day, start_time) ==
    e.subject = subject /\ e.day = day /\ e.start_time = start_time

\* lines 778-781: every entry of the slot is dropped (JSON store)
delete_timetable_entry_json(tt, user_id, subject, day, start_time) ==
    IF user_id \in DOMAIN tt
    THEN Put(tt, user_id,
             SelectSeq(tt[user_id], LAMBDA e : ~SameSlot(e, subject, day, start_time)))
    ELSE tt

\* lines 788-793: delete_one drops the first entry of the slot (MongoDB)
delete_timetable_entry_mongo(tt, user_id, subject, day, start_time) ==
    LET l == EntriesOf(tt, user_id)
        hits == {k \in 1..Len(l) : SameSlot(l[k], subject, day, start_time)}
    IN  IF hits = {} THEN tt
        ELSE LET first == CHOOSE k \in hits : \A j \in hits : k <= j
             IN  Put(tt, user_id,
                     [k \in 1..(Len(l) - 1) |-> IF k < first THEN l[k] ELSE l[k + 1]])

\* delete_many without the user_id filter
clear_timetable_of_everyone(tt, user_id) ==
    [u \in DOMAIN tt \cup {user_id} |-> <<>>]

clear_timetable(tt, user_id) == Put(tt, user_id, <<>>)

\* entry a is sorted before entry b by (day, start_time)
Before(a, b) ==
    \/ a.day < b.day
    \/ a.day = b.day /\ TimeRank(a.start_time) < TimeRank(b.start_time)

\* sorted(): stable insertion of e into the sorted list l
InsertSorted(l, e) ==
    LET later == {k \in 1..Len(l) : Before(e, l[k])}
        pos == IF later = {} THEN Len(l) + 1
               ELSE CHOOSE k \in later : \A j \in later : k <= j
    IN  [k \in 1..(Len(l) + 1) |->
            IF k < pos THEN l[k] ELSE IF k = pos THEN e ELSE l[k - 1]]

RECURSIVE SortEntries(_)
SortEntries(l) ==
    IF l = <<>> THEN <<>>
    ELSE InsertSorted(SortEntries(SubSeq(l, 1, Len(l) - 1)), l[Len(l)])

get_timetable(tt, user_id) == SortEntries(EntriesOf(tt, user_id))

\* str.lower() and the substring test 'a in b' on the names used here
Lower(name) == IF name = "S1" THEN "s1" ELSE name
In(a, b) == a = "" \/ a = b \/ (a = "s" /\ b \in {"s1", "s2"})

\* line 617
Matches(subject, att_subject) ==
    \/ In(Lower(subject), Lower(att_subject))
    \/ In(Lower(att_subject), Lower(subject))

\* the orders in which attendance_map.items() may list the stored subjects
Orders(names) ==
    {o \in [1..Cardinality(names) -> names] :
        \A i, j \in 1..Cardinality(names) : i # j => o[i] # o[j]}

\* lines 615-619: the first record of the map whose name matches, or None
FirstMatch(subject, att, order) ==
    LET hits == {k \in 1..Len(order) : Matches(subject, order[k])}
    IN  IF hits = {} THEN None
        ELSE att[order[CHOOSE k \in hits : \A j \in hits : k <= j]]

\* lines 639-641 without the max(0, ...)
ClassesToSpareUnclamped(present, total, target_pct) ==
    IntTrunc(100 * present - total * target_pct, target_pct)

\* lines 639-641: max(0, int((present * 100 / target_pct) - total))
ClassesToSpare(present, total, target_pct) ==
    Max(0, IntTrunc(100 * present - total * target_pct, target_pct))

\* lines 621-652: one entry of the enhanced timetable
EnhancedEntry(entry, att, target_pct) ==
    [subject |-> entry.subject,
     day |-> entry.day,
     start_time |-> entry.start_time,
     end_time |-> entry.end_time,
     can_bunk |-> IF att # None /\ att.total > 0
                  THEN 100 * att.present >= target_pct * (att.total + 1)
                  ELSE FALSE,
     current_pct |-> IF att # None THEN att.percentage ELSE 0,
     classes_to_spare |-> IF att # None /\ att.total > 0 /\ target_pct > 0
                          THEN ClassesToSpare(att.present, att.total, target_pct)
                          ELSE 0]

\* GET /api/timetable
get_timetable_route(user_id) ==
    LET entries == get_timetable(timetable, user_id)
        target_pct == get_user_config(users, user_id).target_percentage
    IN  /\ \E order \in Orders(DOMAIN attendance[user_id]) :
              response' =
                  [route |-> "timetable", code |-> 200, error |-> "",
                   user_id |-> user_id,
                   timetable |->
                       [k \in 1..Len(entries) |->
                           EnhancedEntry(entries[k],
                                         FirstMatch(entries[k].subject,
                                                    attendance[user_id], order),
                                         target_pct)],
                   target_percentage |-> target_pct]
        /\ UNCHANGED <<calcVars, libVars, storeVars, tableVars, now, scrapeVars>>

\* the frame of a timetable call
TimetableCallFrame ==
    UNCHANGED <<calcVars, dayCount, request, storeVars, scrape_history, now,
                response, scrapeVars>>

CallSaveTimetable(user_id, lists) ==
    \E timetable_entries \in lists :
        /\ timetable' = save_timetable(timetable, user_id, timetable_entries)
        /\ dbCall' = [fn |-> "save_timetable", user_id |-> user_id,
                      args |-> timetable_entries, result |-> TRUE]
        /\ TimetableCallFrame

CallAddTimetableEntry(user_id, entries) ==
    \E e \in entries :
        /\ Len(EntriesOf(timetable, user_id)) < MaxEntries
        /\ timetable' = add_timetable_entry(timetable, user_id, e.subject, e.day,
                                            e.start_time, e.end_time)
        /\ dbCall' = [fn |-> "add_timetable_entry", user_id |-> user_id,
                      args |-> e, result |-> TRUE]
        /\ TimetableCallFrame

\* delete_timetable_entry on the JSON store or on MongoDB
CallDeleteTimetableEntry(user_id, entries) ==
    \E e \in entries :
        /\ \/ /\ timetable' = delete_timetable_entry_json(
                                   timetable, user_id, e.subject, e.day, e.start_time)
              /\ dbCall' = [fn |-> "delete_timetable_entry", user_id |-> user_id,
                            args |-> e, result |-> user_id \in DOMAIN timetable]
           \/ /\ timetable' = delete_timetable_entry_mongo(
                                   timetable, user_id, e.subject, e.day, e.start_time)
              /\ dbCall' = [fn |-> "delete_timetable_entry", user_id |-> user_id,
                            args |-> e,
                            result |-> \E k \in 1..Len(EntriesOf(timetable, user_id)) :
                                          SameSlot(EntriesOf(timetable, user_id)[k],
                                                   e.subject, e.day, e.start_time)]
        /\ TimetableCallFrame

CallClearTimetable(user_id) ==
    /\ timetable' = clear_timetable(timetable, user_id)
    /\ dbCall' = [fn |-> "clear_timetable", user_id |-> user_id,
                  args |-> None, result |-> TRUE]
    /\ TimetableCallFrame

----------------------------------------------------------------------------
(* Specifications *)

TargetChoices == {75, 80}

InitCalc ==
    /\ calculator = AttendanceCalculator(75, 1)
    /\ calcArgs = None
    /\ calcResult = None
    /\ calcSeen = None

InitStore ==
    /\ users = [u \in Users |-> NewUser]
    /\ attendance = [u \in Users |-> EmptyDict]

InitLib ==
    /\ dbCall = None
    /\ dayCount = None
    /\ request = None

\* no timetable yet; the scrape history is not followed
InitTable ==
    /\ timetable = EmptyDict
    /\ scrape_history = Untracked

InitScrape ==
    /\ scraper_status = EmptyDict
    /\ threads = <<>>

\* the attendance routes on an empty store
Init ==
    /\ InitCalc
    /\ InitTable
    /\ InitStore
    /\ InitLib
    /\ InitScrape
    /\ now = [day |-> Today, midnight |-> FALSE]
    /\ response = None

Next ==
    \E user_id \in Users :
        \/ update_attendance(user_id)
        \/ add_subject_route(user_id)
        \/ delete_subject_route(user_id)
        \/ SaveScraped(user_id)

Spec == Init /\ [][Next]_vars

\* the database functions, called in any order
NextDb ==
    \E user_id \in DbUsers :
        \/ CallSaveAttendance(user_id)
        \/ CallUpdateSubject(user_id)
        \/ CallAddSubject(user_id)
        \/ CallDeleteSubject(user_id)

SpecDb == Init /\ [][NextDb]_vars

\* countWorkingDays, called once with every window and every set of weekdays
InitDays ==
    /\ InitCalc
    /\ InitTable
    /\ InitStore
    /\ InitScrape
    /\ dbCall = None
    /\ request = None
    /\ \E startDate \in 0..MaxDay, endDate \in 0..MaxDay,
          enabledDays \in (SUBSET Weekdays) \ {{}} :
          dayCount = [startDate |-> startDate, endDate |-> endDate,
                      enabledDays |-> enabledDays, called |-> FALSE,
                      result |-> [w \in {} |-> 0]]
    /\ now = [day |-> Today, midnight |-> FALSE]
    /\ response = None

NextDays == CallCountWorkingDays

SpecDays == InitDays /\ [][NextDays]_vars

\* the calculator, called with every (present, total, future_classes)
NextCalc == NewCalculator \/ CallBunkAllowance

SpecCalc == Init /\ [][NextCalc]_vars

\* the projection of one stored subject of user u1, for every semester_end
InitProj ==
    /\ InitCalc
    /\ InitTable
    /\ InitLib
    /\ InitScrape
    /\ \E semester_end \in {NoDate, BadDate} \cup 0..MaxSemDay,
          target_percentage \in TargetChoices :
          users = [u \in Users |->
                     IF u = "u1"
                     THEN [NewUser EXCEPT !.semester_end = semester_end,
                                          !.target_percentage = target_percentage]
                     ELSE NewUser]
    /\ \E present \in 0..MaxProjTotal, total \in 1..MaxProjTotal :
          attendance = [u \in Users |->
                          IF u = "u1"
                          THEN Put(EmptyDict, "s1", SubjectRecord("s1", present, total))
                          ELSE EmptyDict]
    /\ now \in [day : {Today}, midnight : BOOLEAN]
    /\ response = None

NextProj ==
    \E user_id \in Users :
        \/ get_predictions(user_id)
        \/ get_latest_data(user_id)

SpecProj == InitProj /\ [][NextProj]_vars

\* the statistics of one or two stored subjects of user u1
StoredSubject(name) ==
    {SubjectRecord(name, present, total) :
        present \in 0..MaxStatCount, total \in 1..MaxStatCount}

InitStats ==
    /\ InitCalc
    /\ InitTable
    /\ InitLib
    /\ InitScrape
    /\ users = [u \in Users |-> NewUser]
    /\ \E a \in StoredSubject("s1") :
          \/ attendance = [u \in Users |->
                              IF u = "u1" THEN Put(EmptyDict, "s1", a)
                              ELSE EmptyDict]
          \/ \E b \in StoredSubject("s2") :
                attendance = [u \in Users |->
                                IF u = "u1"
                                THEN Put(Put(EmptyDict, "s1", a), "s2", b)
                                ELSE EmptyDict]
    /\ now = [day |-> Today, midnight |-> FALSE]
    /\ response = None

SpecStats == InitStats /\ [][NextProj]_vars

----------------------------------------------------------------------------
(* What the claims say of a percentage *)

Abs(x) == IF x >= 0 THEN x ELSE -x

\* pct, in hundredths, is present / total * 100 rounded to 2 decimals
IsRoundedPercentage(pct, present, total) ==
    2 * Abs(pct * total - 10000 * present) <= total

----------------------------------------------------------------------------
(* Claims about calculate_bunk_allowance, under SpecCalc *)

Called == calcArgs # None

Returned == Called /\ calcResult.raised = "none"

SafeTarget == calculator.safe_target

\* attending x more classes brings the percentage to safe_target or above
ReachesSafe(present, total, x) ==
    /\ total + x > 0
    /\ 100 * (present + x) >= SafeTarget * (total + x)

\* C1: calculate_bunk_allowance returns a result for every non-negative
\* present, total and future_classes and never raises; for total = 0 the
\* result has current_percentage = 0.
CalcNeverRaises ==
    Called =>
        /\ calcResult.raised = "none"
        /\ calcArgs.total = 0 => calcResult.current_percentage = 0

\* C2: for counts with 0 <= present <= total, classes_needed_if_below is 0
\* when the current percentage is at or above safe_target, and otherwise the
\* smallest x >= 0 such that (present + x) / (total + x) * 100 >= safe_target.
ClassesNeededIsSmallest ==
    (Returned /\ calcArgs.present <= calcArgs.total) =>
        LET p == calcArgs.present
            t == calcArgs.total
            x == calcResult.classes_needed_if_below
        IN  IF calcResult.is_safe
            THEN x = 0
            ELSE /\ x >= 0
                 /\ ReachesSafe(p, t, x)
                 /\ x > 0 => ~ReachesSafe(p, t, x - 1)

\* C3: whenever total + future_classes > 0, max_safe_bunks is future_classes
\* if present / (total + future_classes) * 100 >= safe_target and 0 otherwise.
AllOrNothing ==
    Called =>
        IF calcArgs.total + calcArgs.future_classes > 0
        THEN /\ calcResult.raised = "none"
             /\ calcResult.max_safe_bunks =
                   IF 100 * calcArgs.present
                        >= SafeTarget * (calcArgs.total + calcArgs.future_classes)
                   THEN calcArgs.future_classes
                   ELSE 0
        ELSE TRUE

\* a call with several future classes, all of them reported as safe to miss
AllOrNothingWitness ==
    /\ Returned
    /\ calcArgs.future_classes >= 2
    /\ calcResult.max_safe_bunks = calcArgs.future_classes

\* C17: a call of calculate_bunk_allowance leaves the calculator's
\* target_percentage, safe_target and attendance_data as the constructor set
\* them, and a call with the arguments of an earlier call returns what the
\* earlier call returned, whatever calls were made in between.
PureCall ==
    Called =>
        /\ calculator.target_percentage = 75
        /\ calculator.safe_target = 76
        /\ calculator.attendance_data = <<>>
        /\ (calcSeen # None /\ calcSeen.args = calcArgs)
              => calcResult = calcSeen.result

\* the arguments of a remembered call are used again after at least one
\* other call
RepeatedCallWitness ==
    /\ Returned
    /\ calcSeen # None
    /\ calcSeen.between
    /\ calcSeen.args = calcArgs
    /\ calcResult.classes_needed_if_below > 0

\* missing b of the future classes and attending the others keeps the final
\* percentage at or above safe_target
StaysSafe(present, total, future_classes, b) ==
    100 * (present + future_classes - b) >= SafeTarget * (total + future_classes)

\* C20: for counts with 0 <= present <= total, max_safe_bunks is the largest
\* b in [0, future_classes] such that
\* (present + future_classes - b) / (total + future_classes) * 100 stays at
\* or above safe_target.
MaxBunksIsTrueMaximum ==
    (Returned /\ calcArgs.present <= calcArgs.total) =>
        LET p == calcArgs.present
            t == calcArgs.total
            f == calcArgs.future_classes
            b == calcResult.max_safe_bunks
        IN  /\ b \in 0..f
            /\ \A k \in 0..f : StaysSafe(p, t, f, k) => k <= b
            /\ (\E k \in 0..f : StaysSafe(p, t, f, k)) => StaysSafe(p, t, f, b)

----------------------------------------------------------------------------
(* Claims about the projection, under SpecProj *)

Predicted == response # None /\ response.route = "predictions" /\ response.code = 200

Latest == response # None /\ response.route = "latest-data" /\ response.code = 200

\* attending k of the remaining classes ends the term at 75% or above
Reaches75(pr, k) ==
    4 * (pr.current.present + k) >= 3 * (pr.current.total + pr.remaining_classes)

\* less than a week of the semester is left, or it is over
NoClassesRemain(user_id) ==
    /\ users[user_id].semester_end \notin {NoDate, BadDate}
    /\ users[user_id].semester_end - now.day < 7

\* C4: classes needed is never negative and never exceeds the remaining
\* classes.
NeededWithinRemaining ==
    Predicted =>
        \A n \in DOMAIN response.predictions :
            LET pr == response.predictions[n]
            IN  /\ pr.classes_needed_75 >= 0
                /\ pr.classes_needed_75 <= pr.remaining_classes

\* C4 (amended): classes needed is the least k >= 0 with
\* (present + k) / (total + remaining) >= 75%; it is never negative, and it
\* exceeds the remaining classes exactly when attending all of them still
\* leaves the subject below 75%.
NeededIsLeastToReach75 ==
    Predicted =>
        \A n \in DOMAIN response.predictions :
            LET pr == response.predictions[n]
                k == pr.classes_needed_75
            IN  /\ k >= 0
                /\ Reaches75(pr, k)
                /\ k > 0 => ~Reaches75(pr, k - 1)
                /\ k > pr.remaining_classes <=> ~Reaches75(pr, pr.remaining_classes)

\* a subject that needs more classes than remain, with classes remaining
NeededExceedsRemainingWitness ==
    /\ Predicted
    /\ \E n \in DOMAIN response.predictions :
          /\ response.predictions[n].remaining_classes > 0
          /\ response.predictions[n].classes_needed_75
                > response.predictions[n].remaining_classes

\* C5: can_skip = remaining_classes - classes_needed, so can_skip >= 0 and
\* can_skip + classes_needed = remaining_classes.
CanSkipIsDifference ==
    Predicted =>
        \A n \in DOMAIN response.predictions :
            LET pr == response.predictions[n]
            IN  /\ pr.can_skip = pr.remaining_classes - pr.classes_needed_75
                /\ pr.can_skip >= 0
                /\ pr.can_skip + pr.classes_needed_75 = pr.remaining_classes

\* C5 (amended): can_skip = max(0, remaining_classes - classes_needed): it is
\* never negative, the two add up to the remaining classes when the target
\* is reachable, and can_skip is 0 when it is not.
CanSkipIsClampedDifference ==
    Predicted =>
        \A n \in DOMAIN response.predictions :
            LET pr == response.predictions[n]
            IN  /\ pr.can_skip >= 0
                /\ pr.classes_needed_75 <= pr.remaining_classes
                      => pr.can_skip + pr.classes_needed_75 = pr.remaining_classes
                /\ pr.classes_needed_75 > pr.remaining_classes => pr.can_skip = 0

\* an unreachable target: nothing can be skipped although classes remain
CanSkipZeroWitness ==
    /\ Predicted
    /\ \E n \in DOMAIN response.predictions :
          /\ response.predictions[n].classes_needed_75
                > response.predictions[n].remaining_classes + 1
          /\ response.predictions[n].remaining_classes >= 2
          /\ response.predictions[n].can_skip = 0

\* C6: risk_level is 'critical' exactly when the current percentage is below
\* 75 and attending every remaining class still leaves
\* (present + remaining) / (total + remaining) below 75; below 75 with the
\* target reachable it is 'danger'.
CriticalIffUnreachable ==
    Predicted =>
        \A n \in DOMAIN response.predictions :
            LET pr == response.predictions[n]
                below == pr.current.percentage < 7500
                unreachable == ~Reaches75(pr, pr.remaining_classes)
            IN  /\ pr.risk_level = "critical" <=> (below /\ unreachable)
                /\ (below /\ ~unreachable) => pr.risk_level = "danger"

\* a subject below 75% whose remaining classes are exactly enough
DangerAtExactlyEnoughWitness ==
    /\ Predicted
    /\ \E n \in DOMAIN response.predictions :
          /\ response.predictions[n].risk_level = "danger"
          /\ response.predictions[n].remaining_classes > 0
          /\ response.predictions[n].classes_needed_75
                = response.predictions[n].remaining_classes

\* C7: every percentage gets one level: >= 85 is 'safe', [75, 85) is
\* 'warning', < 75 is 'danger' or 'critical'; exactly 75 is 'warning' and
\* exactly 85 is 'safe'.
RiskTiers ==
    Predicted =>
        \A n \in DOMAIN response.predictions :
            LET pr == response.predictions[n]
                p == pr.current.present
                t == pr.current.total
            IN  /\ pr.risk_level \in {"safe", "warning", "danger", "critical"}
                /\ 100 * p >= 85 * t <=> pr.risk_level = "safe"
                /\ (100 * p >= 75 * t /\ 100 * p < 85 * t)
                      <=> pr.risk_level = "warning"
                /\ 100 * p < 75 * t <=> pr.risk_level \in {"danger", "critical"}
                /\ pr.current.percentage = 7500 => pr.risk_level = "warning"
                /\ pr.current.percentage = 8500 => pr.risk_level = "safe"

\* a subject at exactly 85%
ExactlyEightyFiveWitness ==
    /\ Predicted
    /\ \E n \in DOMAIN response.predictions :
          /\ response.predictions[n].current.percentage = 8500
          /\ response.predictions[n].risk_level = "safe"

\* C8: when no classes remain, the projection reports classes needed = 0,
\* can_skip = 0 and the projected percentage = the current percentage, for
\* every subject.
CollapseWhenNoneRemain ==
    /\ Predicted /\ NoClassesRemain(response.user_id) =>
          \A n \in DOMAIN response.predictions :
              LET pr == response.predictions[n]
              IN  /\ pr.classes_needed_75 = 0
                  /\ pr.can_skip = 0
                  /\ pr.if_attend_all = pr.current.percentage
    /\ Latest =>
          \A n \in DOMAIN response.subjects :
              LET e == response.subjects[n]
              IN  /\ e.classes_needed_75 = 0
                  /\ e.can_skip = 0
                  /\ e.projected_percentage = e.percentage

\* C8 (amended): when no classes remain, /api/predictions reports
\* remaining_classes = 0, can_skip = 0 and if_attend_all = the current
\* percentage, but classes needed is max(0, ceil(0.75 * total) - present):
\* 0 only for a subject at or above 75%; /api/latest-data always reports
\* 0, 0 and the current percentage.
CollapseExceptNeeded ==
    /\ Predicted /\ NoClassesRemain(response.user_id) =>
          \A n \in DOMAIN response.predictions :
              LET pr == response.predictions[n]
              IN  /\ pr.remaining_classes = 0
                  /\ pr.can_skip = 0
                  /\ pr.if_attend_all = pr.current.percentage
                  /\ pr.classes_needed_75 = 0
                        <=> 4 * pr.current.present >= 3 * pr.current.total
                  /\ pr.classes_needed_75 >= 0
                  /\ Reaches75(pr, pr.classes_needed_75)
    /\ Latest =>
          \A n \in DOMAIN response.subjects :
              LET e == response.subjects[n]
              IN  /\ e.classes_needed_75 = 0
                  /\ e.can_skip = 0
                  /\ e.projected_percentage = e.percentage

\* the semester is over and a subject below 75% still needs classes
NeededAfterTermWitness ==
    /\ Predicted
    /\ users[response.user_id].semester_end \notin {NoDate, BadDate}
    /\ users[response.user_id].semester_end < now.day
    /\ \E n \in DOMAIN response.predictions :
          /\ response.predictions[n].classes_needed_75 > 0
          /\ response.predictions[n].can_skip = 0
          /\ response.predictions[n].current.present
                <= response.predictions[n].current.total

\* C14: for every semester_end, also one in the past or one that does not
\* parse, /api/predictions answers a user who has subjects with 200, and
\* the remaining weeks and the remaining classes of every subject are 0 or
\* more; they are 0 when the semester is over.
RemainingNeverNegative ==
    /\ (response # None /\ response.route = "predictions")
          => response.code \in {200, 404}
    /\ Predicted =>
          LET u == response.user_id
              weeks == response.overall.remaining_weeks
          IN  /\ weeks >= 0
              /\ \A n \in DOMAIN response.predictions :
                    /\ response.predictions[n].remaining_classes >= 0
                    /\ response.predictions[n].remaining_classes = 2 * weeks
              /\ (users[u].semester_end \notin {NoDate, BadDate}
                     /\ users[u].semester_end < now.day) => weeks = 0

\* a projection asked for after the end of the semester
SemesterOverWitness ==
    /\ Predicted
    /\ users[response.user_id].semester_end \notin {NoDate, BadDate}
    /\ users[response.user_id].semester_end < now.day
    /\ response.overall.remaining_weeks = 0
    /\ \A n \in DOMAIN response.predictions :
          response.predictions[n].remaining_classes = 0

\* math.ceil(t / 100 * n) for a target of t percent
CeilTarget(t, n) == (t * n + 99) \div 100

\* C15: the projection uses the user's target_percentage t: classes needed
\* is ceil(t / 100 * (total + remaining)) - present, not below 0 (and
\* possibly capped at the remaining classes), and the risk breakpoints are t
\* and t + 10.
ProjectionUsesTarget ==
    Predicted =>
        LET t == users[response.user_id].target_percentage
        IN  \A n \in DOMAIN response.predictions :
                LET pr == response.predictions[n]
                    x == Max(0, CeilTarget(t, pr.current.total + pr.remaining_classes)
                                  - pr.current.present)
                    pct == pr.current.percentage
                IN  /\ \/ pr.classes_needed_75 = x
                       \/ /\ x > pr.remaining_classes
                          /\ pr.classes_needed_75 = pr.remaining_classes
                    /\ pct < 100 * t <=> pr.risk_level \in {"danger", "critical"}
                    /\ (100 * t <= pct /\ pct < 100 * (t + 10))
                          <=> pr.risk_level = "warning"
                    /\ pct >= 100 * (t + 10) <=> pr.risk_level = "safe"

\* C18: if_attend_all is (present + remaining) / (total + remaining) * 100
\* to 2 decimals when total + remaining > 0 and 0 otherwise; for
\* 0 <= present <= total and total > 0 it is not below the current
\* percentage.
IfAttendAllIsProjection ==
    Predicted =>
        \A n \in DOMAIN response.predictions :
            LET pr == response.predictions[n]
                p == pr.current.present
                t == pr.current.total
                r == pr.remaining_classes
            IN  /\ IF t + r > 0
                   THEN IsRoundedPercentage(pr.if_attend_all, p + r, t + r)
                   ELSE pr.if_attend_all = 0
                /\ (0 <= p /\ p <= t /\ t > 0)
                      => pr.if_attend_all >= pr.current.percentage

\* attending the remaining classes lifts a subject that is below 100%
AttendAllLiftsWitness ==
    /\ Predicted
    /\ \E n \in DOMAIN response.predictions :
          LET pr == response.predictions[n]
          IN  /\ pr.remaining_classes > 0
              /\ pr.current.present > 0
              /\ pr.current.present < pr.current.total
              /\ pr.if_attend_all > pr.current.percentage
              /\ (10000 * (pr.current.present + pr.remaining_classes))
                    % (pr.current.total + pr.remaining_classes) # 0

----------------------------------------------------------------------------
(* Claims about the working-day counter, under SpecDays *)

Counted == dayCount # None /\ dayCount.called

\* C19: countWorkingDays(start, end, enabledDays) returns a count for exactly
\* the weekdays of enabledDays, each the number of days d with
\* start <= d <= end that fall on that weekday; when start > end every
\* count is 0.
WorkingDayCounts ==
    Counted =>
        LET r == dayCount.result
            window == {d \in 0..MaxDay :
                          dayCount.startDate <= d /\ d <= dayCount.endDate}
        IN  /\ DOMAIN r = dayCount.enabledDays
            /\ \A w \in dayCount.enabledDays :
                  r[w] = Cardinality({d \in window : d % 7 = w})
            /\ dayCount.startDate > dayCount.endDate
                  => \A w \in dayCount.enabledDays : r[w] = 0

\* a window of more than two weeks that ends on an enabled weekday, with
\* some weekdays disabled and an enabled weekday that falls in it only twice
LongWindowWitness ==
    /\ Counted
    /\ dayCount.startDate > 0
    /\ dayCount.enabledDays # Weekdays
    /\ Weekday(dayCount.endDate) \in dayCount.enabledDays
    /\ dayCount.result[Weekday(dayCount.endDate)] = 3
    /\ \E w \in dayCount.enabledDays : dayCount.result[w] = 2

----------------------------------------------------------------------------
(* Claims about the aggregate statistics, under SpecStats *)

\* a count of the stored record of a subject, 0 when the user has none
StoredCount(u, n, field) ==
    IF n \in DOMAIN attendance[u] THEN attendance[u][n][field] ELSE 0

SumPresent(u) == StoredCount(u, "s1", "present") + StoredCount(u, "s2", "present")

SumTotal(u) == StoredCount(u, "s1", "total") + StoredCount(u, "s2", "total")

\* pct is sum(present) / sum(total) * 100 to 2 decimals, 0 when sum(total) = 0
IsOverallOf(pct, u) ==
    IF SumTotal(u) > 0
    THEN IsRoundedPercentage(pct, SumPresent(u), SumTotal(u))
    ELSE pct = 0

\* C12: the overall percentage of /api/latest-data and of /api/predictions
\* is sum(present) / sum(total) * 100 over the user's subjects, and 0 when
\* sum(total) = 0.
OverallIsRatioOfSums ==
    /\ Latest => IsOverallOf(response.stats.average, response.user_id)
    /\ Predicted => IsOverallOf(response.overall.current_pct, response.user_id)

\* two subjects whose mean percentage is not the ratio of the sums
RatioIsNotMeanWitness ==
    /\ Latest
    /\ Cardinality(DOMAIN response.subjects) = 2
    /\ LET u == response.user_id
           mean2 == attendance[u]["s1"].percentage + attendance[u]["s2"].percentage
       IN  /\ attendance[u]["s1"].total # attendance[u]["s2"].total
           /\ Abs(2 * response.stats.average - mean2) > 200

\* C13: every subject is counted in exactly one of safe (percentage >= 85),
\* warning (75 <= percentage < 85) and danger (percentage < 75), so
\* safe + warning + danger = the number of subjects.
StatsPartition ==
    Latest =>
        LET u == response.user_id
            names == DOMAIN attendance[u]
            st == response.stats
        IN  /\ st.total = Cardinality(names)
            /\ st.safe + st.warning + st.danger = st.total
            /\ st.safe = Cardinality({n \in names : attendance[u][n].percentage >= 8500})
            /\ st.danger = Cardinality({n \in names : attendance[u][n].percentage < 7500})
            /\ st.warning = st.total - st.safe - st.danger

\* a subject at exactly 75% beside one below 75%
BoundarySubjectWitness ==
    /\ Latest
    /\ response.stats.total = 2
    /\ response.stats.warning = 1
    /\ response.stats.danger = 1
    /\ \E n \in DOMAIN response.subjects : response.subjects[n].percentage = 7500

----------------------------------------------------------------------------
(* Claims about the store, under Spec *)

\* C9: every stored subject record of every user has 0 <= present <= total.
StoredPresentWithinTotal ==
    \A u \in Users :
        \A n \in DOMAIN attendance[u] :
            /\ 0 <= attendance[u][n].present
            /\ attendance[u][n].present <= attendance[u][n].total

----------------------------------------------------------------------------
(* Claims about the database functions, under SpecDb *)

DbCalled(fn) == dbCall # None /\ dbCall.fn = fn

\* C11: after any sequence of save_attendance, update_subject, add_subject
\* and delete_subject calls, every stored record has percentage =
\* present / total * 100 rounded to 2 decimals when total > 0, and
\* percentage = 0 when total = 0.
PercentageDerived ==
    \A u \in Users :
        \A n \in DOMAIN attendance[u] :
            LET r == attendance[u][n]
            IN  IF r.total > 0
                THEN IsRoundedPercentage(r.percentage, r.present, r.total)
                ELSE r.percentage = 0

\* an update has replaced the counts of a stored subject by counts whose
\* percentage needs rounding, beside a subject stored with total = 0
PercentageRecomputedWitness ==
    /\ DbCalled("update_subject")
    /\ \E n \in DOMAIN attendance[dbCall.user_id] :
          /\ attendance[dbCall.user_id][n].total = 0
          /\ attendance[dbCall.user_id][n].percentage = 0
    /\ \E n \in DOMAIN attendance[dbCall.user_id] :
          LET r == attendance[dbCall.user_id][n]
          IN  /\ dbCall.args.subject = n
              /\ r.total > 0
              /\ (10000 * r.present) % r.total # 0
              /\ r.percentage > 0

\* the stored records of a user have distinct subject names
DistinctSubjects(u) ==
    \A k1, k2 \in DOMAIN attendance[u] :
        attendance[u][k1].subject = attendance[u][k2].subject => k1 = k2

\* C16: a user has at most one record per subject name after any sequence of
\* add_subject, update_subject and save_attendance calls, and add_subject
\* with a name already stored for that user returns the error
\* 'Subject already exists' and leaves the store unchanged.
UniqueSubjectNames ==
    /\ [](\A u \in Users : DistinctSubjects(u))
    /\ [][(/\ dbCall' # None
            /\ dbCall'.fn = "add_subject"
            /\ dbCall'.args.subject \in DOMAIN attendance[dbCall'.user_id])
             => /\ dbCall'.result
                     = [success |-> FALSE, error |-> "Subject already exists"]
                /\ attendance' = attendance]_vars

\* add_subject was refused for a stored subject whose counts differ from the
\* ones of the call
AddExistingWitness ==
    /\ DbCalled("add_subject")
    /\ ~dbCall.result.success
    /\ dbCall.result.error = "Subject already exists"
    /\ dbCall.args.subject \in DOMAIN attendance[dbCall.user_id]
    /\ attendance[dbCall.user_id][dbCall.args.subject].present
          # dbCall.args.present
    /\ Cardinality(DOMAIN attendance[dbCall.user_id]) = 2

----------------------------------------------------------------------------
(* The scrape routes and the background threads *)

\* the user whose requests and threads are followed
ScrapeUsers == {"u1"}

NextScrape ==
    \/ \E user_id \in ScrapeUsers :
          \/ setup(user_id)
          \/ start_scrape(user_id)
          \/ auto_sync(user_id)
          \/ scrape_status_route(user_id)
    \/ \E i \in 1..Len(threads) : T_Begin(i)
    \/ \E i \in 1..Len(threads) : T_SetupDriver(i)
    \/ \E i \in 1..Len(threads) : T_Login(i)
    \/ \E i \in 1..Len(threads) : T_Navigate(i)
    \/ \E i \in 1..Len(threads) : T_Extract(i)
    \/ \E i \in 1..Len(threads) : T_Save(i)
    \/ \E i \in 1..Len(threads) : T_Quit(i)
    \/ \E i \in 1..Len(threads) : T_Except(i)
    \/ \E i \in 1..Len(threads) : T_Finally(i)

SpecScrape == Init /\ [][NextScrape]_vars

\* the steps of thread i of run_scraper_background
ThreadStep(i) ==
    /\ i <= Len(threads)
    /\ \/ T_Begin(i) \/ T_SetupDriver(i) \/ T_Login(i) \/ T_Navigate(i)
       \/ T_Extract(i) \/ T_SaveOne(i) \/ T_Quit(i) \/ T_Except(i) \/ T_Finally(i)

\* /api/scrape requests of one user and the tasks they start
NextTask ==
    \/ \E user_id \in ScrapeUsers : start_scrape(user_id)
    \/ \E i \in 1..Len(threads) : T_Begin(i)
    \/ \E i \in 1..Len(threads) : T_SetupDriver(i)
    \/ \E i \in 1..Len(threads) : T_Login(i)
    \/ \E i \in 1..Len(threads) : T_Navigate(i)
    \/ \E i \in 1..Len(threads) : T_Extract(i)
    \/ \E i \in 1..Len(threads) : T_SaveOne(i)
    \/ \E i \in 1..Len(threads) : T_Quit(i)
    \/ \E i \in 1..Len(threads) : T_Except(i)
    \/ \E i \in 1..Len(threads) : T_Finally(i)

\* a started thread is scheduled until run_scraper_background returns
SpecTask ==
    Init /\ [][NextTask]_vars /\ \A i \in 1..MaxThreads : WF_vars(ThreadStep(i))

\* the timetable view of user u1: one stored subject with any counts, a
\* second one or not, any timetable
InitTimetable ==
    /\ InitCalc
    /\ InitLib
    /\ InitScrape
    /\ scrape_history = Untracked
    /\ \E target_percentage \in TargetChoices :
          users = [u \in Users |->
                     IF u = "u1"
                     THEN [NewUser EXCEPT !.target_percentage = target_percentage]
                     ELSE NewUser]
    /\ \E present \in 0..MaxSpareTotal, total \in 0..MaxSpareTotal, both \in BOOLEAN :
          attendance = [u \in Users |->
                          IF u = "u1"
                          THEN LET one == Put(EmptyDict, "s1",
                                              SubjectRecord("s1", present, total))
                               IN  IF both
                                   THEN Put(one, "s2", SubjectRecord("s2", 1, 2))
                                   ELSE one
                          ELSE EmptyDict]
    /\ \E l \in EntryLists(MaxEntries) : timetable = Put(EmptyDict, "u1", l)
    /\ now = [day |-> Today, midnight |-> FALSE]
    /\ response = None

NextTimetable == \E user_id \in ScrapeUsers : get_timetable_route(user_id)

SpecTimetable == InitTimetable /\ [][NextTimetable]_vars

\* the eight attendance and timetable functions called for either user, on
\* one subject and one timetable slot, with the scrape history followed
IsoEntries == {TimetableEntry("s1", 0, "09:00", "11:00")}

InitIsolation ==
    /\ InitCalc
    /\ InitStore
    /\ InitLib
    /\ InitScrape
    /\ timetable = EmptyDict
    /\ scrape_history = EmptyDict
    /\ now = [day |-> Today, midnight |-> FALSE]
    /\ response = None

NextIsolation ==
    \E user_id \in Users :
        \/ CallSaveAttendanceOf(user_id, {OneScraped})
        \/ CallUpdateSubjectOf(user_id, {"s1"}, {0}, {1})
        \/ CallAddSubjectOf(user_id, {"s1"}, {1}, {1})
        \/ CallDeleteSubjectOf(user_id, {"s1"})
        \/ CallSaveTimetable(user_id, {<<e>> : e \in IsoEntries})
        \/ CallAddTimetableEntry(user_id, IsoEntries)
        \/ CallDeleteTimetableEntry(user_id, IsoEntries)
        \/ CallClearTimetable(user_id)

SpecIsolation == InitIsolation /\ [][NextIsolation]_vars

\* the stores of one user: each subject absent or stored with any counts
StoredDicts ==
    {[n \in names |-> SubjectRecord(n, counts[n][1], counts[n][2])] :
        names \in SUBSET Subjects, counts \in [Subjects -> DbPresent \X DbTotal]}

\* subjects of user u1 deleted by database calls and by /api/delete-subject
InitDelete ==
    /\ InitCalc
    /\ InitTable
    /\ InitLib
    /\ InitScrape
    /\ users = [u \in Users |-> NewUser]
    /\ \E stored \in StoredDicts :
          attendance = [u \in Users |-> IF u = "u1" THEN stored ELSE EmptyDict]
    /\ now = [day |-> Today, midnight |-> FALSE]
    /\ response = None

NextDelete ==
    \E user_id \in ScrapeUsers :
        \/ CallDeleteSubject(user_id)
        \/ delete_subject_route(user_id)

SpecDelete == InitDelete /\ [][NextDelete]_vars

\* manual edits of one user's subjects
NextUpdate == \E user_id \in ScrapeUsers : PostUpdateAttendance(user_id)

SpecUpdate == Init /\ [][NextUpdate]_vars

\* the configuration routes of one user, with subjects to clear
NextConfig ==
    \E user_id \in ScrapeUsers :
        \/ setup(user_id)
        \/ add_subject_route(user_id)
        \/ reset_config(user_id)

SpecConfig == Init /\ [][NextConfig]_vars

\* C21: after /api/reset-config has answered 200 the user's semester_start
\* and semester_end are cleared and get_user_config reports
\* setup_complete = False.
ResetClearsSemester ==
    (response # None /\ response.route = "reset-config" /\ response.code = 200) =>
        LET u == response.user_id
        IN  /\ users[u].semester_start = NoDate
            /\ users[u].semester_end = NoDate
            /\ ~get_user_config(users, u).setup_complete

\* the threads of a user that are inside run_scraper_background
ActiveTasks(user_id) ==
    {i \in 1..Len(threads) :
        threads[i].user_id = user_id /\ threads[i].pc \notin {"start", "done"}}

\* C10: at most one run_scraper_background task of a user is active at any
\* time, whatever /api/setup, /api/scrape and /api/auto-sync requests the
\* user makes.
AtMostOneActiveScrape ==
    \A u \in Users : Cardinality(ActiveTasks(u)) <= 1

\* thread i returns from run_scraper_background in this step
Returns(i) == threads[i].pc = "finally" /\ threads'[i].pc = "done"

\* the status of a finished refresh: not running, and complete or failed
Settled(st) == ~st.running /\ (st.complete \/ st.error # NoneStr)

\* C22: every run_scraper_background task that is the only active task of
\* its user terminates, and when it returns the user's status has
\* running = False and either complete = True or a non-null error, on every
\* path (login failure, navigation failure, no data, exception, success).
SoleTaskEndsSettled ==
    /\ [][\A i \in 1..Len(threads) :
             (Returns(i) /\ ActiveTasks(threads[i].user_id) = {i}) =>
                 Settled(scraper_status'[threads[i].user_id])]_vars
    /\ \A i \in 1..MaxThreads :
          (i <= Len(threads)) ~> (i <= Len(threads) /\ threads[i].pc = "done")

\* a task that ran alone has returned after an exception
SoleTaskFailedWitness ==
    /\ Len(threads) = 1
    /\ threads[1].pc = "done"
    /\ scraper_status[threads[1].user_id].error = "exception"
    /\ ~scraper_status[threads[1].user_id].running

\* C23: in no reachable scraper status do complete = True and a non-null
\* error hold together.
CompleteExcludesError ==
    \A u \in DOMAIN scraper_status :
        ~(scraper_status[u].complete /\ scraper_status[u].error # NoneStr)

\* C24: whenever run_scraper_background has returned after the driver was
\* set up, the driver has been quit, on every exit path.
DriverQuitAtExit ==
    \A i \in 1..Len(threads) :
        (threads[i].pc = "done" /\ threads[i].driver # "none") =>
            threads[i].driver = "quit"

\* both counts of the body are numbers
Numeric(data) == data.present.kind = "num" /\ data.total.kind = "num"

\* the integer a number is cut to when its fraction is dropped
Truncated(v) ==
    CHOOSE c \in (-(MaxCount + 3))..(MaxCount + 3) :
        IF v.halves >= 0
        THEN 2 * c <= v.halves /\ v.halves < 2 * c + 2
        ELSE 2 * c - 2 < v.halves /\ v.halves <= 2 * c

\* present and total do not satisfy 0 <= present <= total, total > 0
BadCounts(present, total) == total <= 0 \/ present < 0 \/ present > total

\* C25 as stated: /api/update-attendance rejects a request with total <= 0,
\* present < 0 or present > total with 400 and leaves the store unchanged;
\* only requests with 0 <= present <= total and total > 0 modify the store.
UpdateRejectsBadCounts ==
    [][request' # None =>
          LET bad == BadCounts(request'.present.halves, request'.total.halves)
          IN  /\ (Numeric(request') /\ bad) =>
                     (response'.code = 400 /\ attendance' = attendance)
              /\ attendance' # attendance => (Numeric(request') /\ ~bad)]_vars

\* C25, amended: the counts tested are the request's present and total
\* after int(), which drops the fraction: a request whose converted counts
\* have total <= 0, present < 0 or present > total is rejected with 400 and
\* leaves the store unchanged, and only requests whose converted counts
\* satisfy 0 <= present <= total and total > 0 modify the store.
UpdateRejectsBadConvertedCounts ==
    [][request' # None =>
          LET bad == BadCounts(Truncated(request'.present), Truncated(request'.total))
          IN  /\ (Numeric(request') /\ bad) =>
                     (response'.code = 400 /\ attendance' = attendance)
              /\ attendance' # attendance => (Numeric(request') /\ ~bad)]_vars

\* present = 1.5 of total = 1 has been accepted and stored as 1 of 1
FractionAcceptedWitness ==
    /\ request # None
    /\ request.present = Num(3) /\ request.total = Num(2)
    /\ response.code = 200
    /\ request.subject \in DOMAIN attendance["u1"]
    /\ attendance["u1"][request.subject].present = 1
    /\ attendance["u1"][request.subject].total = 1

\* the largest x >= 0 with present / (total + x) * 100 >= target, and 0
\* when there is none
LargestSpare(present, total, target) ==
    LET xs == {x \in 0..(2 * MaxSpareTotal) :
                  100 * present >= target * (total + x)}
    IN  IF xs = {} THEN 0 ELSE CHOOSE x \in xs : \A y \in xs : y <= x

\* C26: in the timetable view, for a subject with total > 0 and target > 0,
\* classes_to_spare is the largest integer x >= 0 such that
\* present / (total + x) * 100 >= target, and 0 when no such x exists.
SpareIsLargestSkippable ==
    (response # None /\ response.route = "timetable") =>
        \A k \in 1..Len(response.timetable) :
            LET e == response.timetable[k]
                att == attendance[response.user_id]
                hits == {n \in DOMAIN att : Matches(e.subject, n)}
            IN  hits # {} =>
                    \E n \in hits :
                        /\ e.current_pct = att[n].percentage
                        /\ (att[n].total > 0 /\ response.target_percentage > 0) =>
                               e.classes_to_spare =
                                   LargestSpare(att[n].present, att[n].total,
                                                response.target_percentage)

\* the view shows two classes to spare for one entry and none for another,
\* whose subject is below the target
SpareAndNoneWitness ==
    /\ response # None /\ response.route = "timetable"
    /\ Len(response.timetable) = 2
    /\ response.timetable[1].classes_to_spare = 2
    /\ response.timetable[2].classes_to_spare = 0
    /\ response.timetable[2].current_pct > 0
    /\ response.timetable[2].current_pct < 100 * response.target_percentage

\* data['scrape_history'].get(user_id, [])
HistoryOf(hist, user_id) == IF user_id \in DOMAIN hist THEN hist[user_id] ELSE <<>>

\* C27: add_subject, update_subject, delete_subject, save_attendance,
\* save_timetable, add_timetable_entry, delete_timetable_entry and
\* clear_timetable called for user u leave the attendance records, the
\* timetable and the scrape history of every other user unchanged.
OtherUsersUntouched ==
    [][\A v \in Users \ {dbCall'.user_id} :
           /\ attendance'[v] = attendance[v]
           /\ EntriesOf(timetable', v) = EntriesOf(timetable, v)
           /\ HistoryOf(scrape_history', v) = HistoryOf(scrape_history, v)]_vars

\* u2 has a subject, a timetable entry and a scrape on record when the
\* timetable of u1 is cleared
ClearedBesideOtherWitness ==
    /\ DbCalled("clear_timetable") /\ dbCall.user_id = "u1"
    /\ DOMAIN attendance["u2"] # {}
    /\ EntriesOf(timetable, "u2") # <<>>
    /\ HistoryOf(scrape_history, "u2") # <<>>

\* this step leaves the record of the last database call as it is
SameCall ==
    IF dbCall = None \/ dbCall' = None THEN dbCall = None /\ dbCall' = None
    ELSE /\ dbCall'.fn = dbCall.fn
         /\ dbCall'.user_id = dbCall.user_id
         /\ dbCall'.args = dbCall.args
         /\ dbCall'.result = dbCall.result

\* this step deletes subject name of user u as the claim says, found being
\* what the caller is told
Removal(u, name, found) ==
    IF name \in DOMAIN attendance[u]
    THEN /\ found
         /\ attendance' =
                [attendance EXCEPT ![u] =
                    [m \in DOMAIN attendance[u] \ {name} |-> attendance[u][m]]]
    ELSE /\ ~found
         /\ attendance' = attendance

\* C28: delete_subject for a name that is not stored for the user returns
\* False, which the route reports as 404 'not found', and leaves the store
\* unchanged; for a stored subject it returns True and removes exactly that
\* subject's record, leaving the user's other subjects unchanged.
DeleteRemovesExactlyThat ==
    [][IF ~SameCall
       THEN \* a database call
            dbCall'.fn = "delete_subject" =>
                Removal(dbCall'.user_id, dbCall'.args, dbCall'.result)
       ELSE \* a request, unless nothing changes
            (/\ response' # response \/ attendance' # attendance
             /\ response'.route = "delete-subject"
             /\ response'.code # 400) =>
                /\ response'.code \in {200, 404}
                /\ response'.code = 404 => response'.error = "not found"
                /\ Removal(response'.user_id, response'.subject,
                           response'.code = 200)]_vars

\* one of two stored subjects has been deleted and the other is still there
DeletedOneOfTwoWitness ==
    /\ DbCalled("delete_subject") /\ dbCall.result
    /\ dbCall.args = "s1"
    /\ DOMAIN attendance[dbCall.user_id] = {"s2"}
    /\ response # None /\ response.route = "delete-subject" /\ response.code = 404

====
